---- MODULE Spec2Model ----
(***************************************************************************)
(* A model of epg.py: the zuragt.mn EPG scraper.                           *)
(*                                                                         *)
(* Text (channel names, time texts, titles, channel ids) is a sequence of  *)
(* one-character strings.  An XMLTV time string "YYYYmmddHHMMSS" is the    *)
(* natural number it spells, with the date part being the ordinal of the   *)
(* day (day_offset); a datetime is the number of seconds since the start   *)
(* of day 0.                                                               *)
(***************************************************************************)
EXTENDS Integers, Sequences, FiniteSets, TLC

(* ------------------------------ bounds --------------------------------- *)
\* number of days of the fetch window explored (DAYS_TO_FETCH is 7)
NumDays == 2
\* most tv-box sections on one day page
MaxSections == 2
\* most li rows of a section in the pipeline specification
MaxRows == 2
\* most li rows of the section in the specification of one section
MaxSecRows == 3
\* most programme elements of the document given to the QC walk
MaxQC == 3

(* ------------------------------ text ----------------------------------- *)
\* the result of a search that finds nothing: li.find(...) without the tag,
\* TIME_RE.match(...) without a match
None == <<>>
\* a tag that is found, with its text
Tag(text) == <<text>>

WS == {" "}
Digit == {"0", "1", "2", "3", "4", "5", "6", "7", "8", "9"}

\* str.lstrip() / str.rstrip() / str.strip()
RECURSIVE LStrip(_)
LStrip(s) == IF s # <<>> /\ Head(s) \in WS THEN LStrip(Tail(s)) ELSE s

RECURSIVE RStrip(_)
RStrip(s) ==
    IF s # <<>> /\ s[Len(s)] \in WS THEN RStrip(SubSeq(s, 1, Len(s) - 1)) ELSE s

Strip(s) == RStrip(LStrip(s))

\* tag.get_text(strip=True)
get_text(tag) == Strip(tag[1])

\* re.sub(r"\s+", "_", s): every maximal run of whitespace becomes one "_"
RECURSIVE SubWS(_)
SubWS(s) ==
    IF s = <<>> THEN <<>>
    ELSE IF Head(s) \in WS THEN <<"_">> \o SubWS(LStrip(s))
    ELSE <<Head(s)>> \o SubWS(Tail(s))

normalize_channel_id(name) == SubWS(Strip(name))

\* the headers that are no channels; the three Mongolian ones are written here
\* in Latin letters
NON_CHANNEL_DISPLAY_NAMES ==
    {<<"S", "u", "v", "g", "u", "u", "d">>,
     <<"S", "u", "v", "a", "g">>,
     <<"C", "h", "a", "n", "n", "e", "l", "s">>,
     <<"S", "u", "v", "g", "u", "u", "d", "y", "n", " ",
       "j", "a", "g", "s", "a", "a", "l", "t">>}

(* ------------------------------ time ----------------------------------- *)
DigitVal(c) ==
    CASE c = "0" -> 0 [] c = "1" -> 1 [] c = "2" -> 2 [] c = "3" -> 3
      [] c = "4" -> 4 [] c = "5" -> 5 [] c = "6" -> 6 [] c = "7" -> 7
      [] c = "8" -> 8 [] c = "9" -> 9

\* TIME_RE = ^\s*(\d{1,2})\s*:\s*(\d{2})\s*$ ; the result is None or <<hour, minute>>
TIME_RE_match(ttxt) ==
    LET t == Strip(ttxt)
        n == Len(t)
        k == IF n >= 2 /\ t[2] \in Digit THEN 2 ELSE 1
        mid == Strip(SubSeq(t, k + 1, n - 2))
    IN  IF /\ n >= 4
           /\ t[1] \in Digit
           /\ t[n - 1] \in Digit
           /\ t[n] \in Digit
           /\ mid = <<":">>
        THEN << IF k = 2 THEN 10 * DigitVal(t[1]) + DigitVal(t[2]) ELSE DigitVal(t[1]),
                10 * DigitVal(t[n - 1]) + DigitVal(t[n]) >>
        ELSE None

\* datetime: seconds since the start of day 0
DateTime(day, hour, minute, second) == ((day * 24 + hour) * 60 + minute) * 60 + second

DigitChar(n) ==
    CASE n = 0 -> "0" [] n = 1 -> "1" [] n = 2 -> "2" [] n = 3 -> "3"
      [] n = 4 -> "4" [] n = 5 -> "5" [] n = 6 -> "6" [] n = 7 -> "7"
      [] n = 8 -> "8" [] n = 9 -> "9"

\* a strftime field of two digits, zero padded
Pad2(n) == <<DigitChar(n \div 10), DigitChar(n % 10)>>

\* int() of a string of digits
RECURSIVE Num(_)
Num(s) == IF s = <<>> THEN 0 ELSE 10 * Num(SubSeq(s, 1, Len(s) - 1)) + DigitVal(s[Len(s)])

\* dt.strftime("%Y%m%d%H%M%S") with INCLUDE_TZ_OFFSET = False; the date is
\* written as the two digits of the day's ordinal
fmt_xmltv_time(dt) ==
    LET day == dt \div 86400
        hour == (dt % 86400) \div 3600
        minute == (dt % 3600) \div 60
        second == dt % 60
    IN  Pad2(day) \o Pad2(hour) \o Pad2(minute) \o Pad2(second)

\* datetime.strptime(ts.strip(), "%Y%m%d%H%M%S")
_parse_ts(ts) ==
    LET t == Strip(ts)
    IN  DateTime(Num(SubSeq(t, 1, 2)), Num(SubSeq(t, 3, 4)),
                 Num(SubSeq(t, 5, 6)), Num(SubSeq(t, 7, 8)))

\* to_int: int(s.split()[0])
to_int(s) == Num(Strip(s))

\* datetime.date()
date(dt) == dt \div 86400

\* day_local.replace(hour=..., minute=..., second=..., microsecond=0)
replace(day_local, hour, minute, second) == DateTime(date(day_local), hour, minute, second)

(* ------------------------- one tv-box section -------------------------- *)
\* an element of the tree: tag, attributes, text, children
Element(tag, attrib, text, children) ==
    [tag |-> tag, attrib |-> attrib, text |-> text, children |-> children]

mn == <<"m", "n">>

\* ParseRows, were rows with an empty time text or an empty title skipped uncounted
RECURSIVE ParseRowsSkipEmpty(_, _, _)
ParseRowsSkipEmpty(day_local, channel_id, li_items) ==
    IF li_items = <<>> THEN [programme_list |-> <<>>, invalid_times |-> 0]
    ELSE
      LET li == Head(li_items)
          rest == ParseRowsSkipEmpty(day_local, channel_id, Tail(li_items))
          m == TIME_RE_match(get_text(li.time))
      IN  IF li.time = None \/ li.program = None THEN rest
          ELSE IF get_text(li.time) = <<>> \/ get_text(li.program) = <<>> THEN rest
          ELSE IF m = None \/ m[1] > 23 \/ m[2] > 59
            THEN [rest EXCEPT !.invalid_times = @ + 1]
          ELSE [rest EXCEPT !.programme_list =
                  << [start |-> fmt_xmltv_time(replace(day_local, m[1], m[2], 0)),
                      title |-> get_text(li.program),
                      channel_id |-> channel_id] >> \o @]

\* lines 146-169: the rows of a section in page order -> programme_list, invalid_times
RECURSIVE ParseRows(_, _, _)
ParseRows(day_local, channel_id, li_items) ==
    IF li_items = <<>> THEN [programme_list |-> <<>>, invalid_times |-> 0]
    ELSE
      LET li == Head(li_items)
          rest == ParseRows(day_local, channel_id, Tail(li_items))
          m == TIME_RE_match(get_text(li.time))
      IN  IF li.time = None \/ li.program = None THEN rest
          ELSE IF m = None
            THEN [rest EXCEPT !.invalid_times = @ + 1]
          ELSE IF m[1] > 23 \/ m[2] > 59
            THEN [rest EXCEPT !.invalid_times = @ + 1]
          ELSE [rest EXCEPT !.programme_list =
                  << [start |-> fmt_xmltv_time(replace(day_local, m[1], m[2], 0)),
                      title |-> get_text(li.program),
                      channel_id |-> channel_id] >> \o @]

\* Dedup, were the last item of every start kept
RECURSIVE DedupLast(_, _)
DedupLast(programme_list, seen_starts) ==
    IF programme_list = <<>> THEN <<>>
    ELSE LET item == Head(programme_list)
         IN  IF \E k \in 2..Len(programme_list) : programme_list[k].start = item.start
             THEN DedupLast(Tail(programme_list), seen_starts)
             ELSE <<item>> \o DedupLast(Tail(programme_list), seen_starts)

\* lines 174-183: keep the first item of every start
RECURSIVE Dedup(_, _)
Dedup(programme_list, seen_starts) ==
    IF programme_list = <<>> THEN <<>>
    ELSE LET item == Head(programme_list)
         IN  IF item.start \in seen_starts
             THEN Dedup(Tail(programme_list), seen_starts)
             ELSE <<item>> \o Dedup(Tail(programme_list), seen_starts \cup {item.start})

\* list.sort(key=...) on <<key, item>> pairs: a stable sort, here by insertion
RECURSIVE Insert(_, _)
Insert(sorted, x) ==
    IF sorted = <<>> THEN <<x>>
    ELSE IF x[1] < Head(sorted)[1] THEN <<x>> \o sorted
    ELSE <<Head(sorted)>> \o Insert(Tail(sorted), x)

RECURSIVE SortPairs(_)
SortPairs(pairs) ==
    IF pairs = <<>> THEN <<>>
    ELSE Insert(SortPairs(SubSeq(pairs, 1, Len(pairs) - 1)), pairs[Len(pairs)])

\* SortByStart, were the list left in page order
NoSort(programme_list) == programme_list

\* programme_list.sort(key=lambda p: to_int(p["start"]))
SortByStart(programme_list) ==
    LET pairs == [i \in 1..Len(programme_list) |->
                    <<to_int(programme_list[i].start), programme_list[i]>>]
        sorted == SortPairs(pairs)
    IN  [i \in 1..Len(sorted) |-> sorted[i][2]]

\* last_stop, were it the midnight that begins the next day
NextMidnight(day_local) == replace(day_local + 86400, 0, 0, 0)

\* line 195: the stop of the last programme of the list
last_stop(day_local) == replace(day_local, 23, 59, 59)

\* lines 191-205: the programme elements of a sorted list
Emit(day_local, programme_list) ==
    [i \in 1..Len(programme_list) |->
        Element("programme",
                [start |-> programme_list[i].start,
                 stop |-> IF i + 1 <= Len(programme_list)
                          THEN programme_list[i + 1].start
                          ELSE fmt_xmltv_time(last_stop(day_local)),
                 channel |-> programme_list[i].channel_id],
                <<>>,
                <<Element("title", [lang |-> mn], programme_list[i].title, <<>>)>>)]

\* lines 142-205 for one section with rows: what is parsed, kept and emitted
Section(day_local, channel_id, li_items) ==
    LET parsed == ParseRows(day_local, channel_id, li_items)
        deduped == Dedup(parsed.programme_list, {})
        sorted == SortByStart(deduped)
    IN  [programme_list |-> parsed.programme_list,
         invalid_times |-> parsed.invalid_times,
         emitted |-> Emit(day_local, sorted)]

(* ------------------- tv.find("./channel[@id='...']") ------------------- *)
\* The path is built by an f-string and read by ElementTree's path language
\* (xml.etree.ElementPath: xpath_tokenizer, prepare_predicate, iterfind, find).
\* The channel id is pasted into the path as it is, so an id with an
\* apostrophe ends the quoted value early and the rest of it is read as path.
\* The channel names of the model are made of letters, spaces and the
\* characters ' [ ] @ = ; the tokens and predicates below are the ones a path
\* over these characters (after the prefix "./channel[@id='") can contain.
Symbols == {".", "/", "[", "]", "@", "="}
NameChar(c) == c \notin {"/", "[", "]", "(", ")", "@", "!", "="} \cup WS

\* the name an element or an attribute has in the tree, for the text of a token
NameOf(chars) ==
    CASE chars = <<"c", "h", "a", "n", "n", "e", "l">> -> "channel"
      [] chars = <<"p", "r", "o", "g", "r", "a", "m", "m", "e">> -> "programme"
      [] chars = <<"d", "i", "s", "p", "l", "a", "y", "-", "n", "a", "m", "e">> -> "display-name"
      [] chars = <<"t", "i", "t", "l", "e">> -> "title"
      [] chars = <<"i", "d">> -> "id"
      [] chars = <<"l", "a", "n", "g">> -> "lang"
      [] chars = <<"s", "t", "a", "r", "t">> -> "start"
      [] chars = <<"s", "t", "o", "p">> -> "stop"
      [] OTHER -> "?"

\* the length of the longest prefix of s made of name characters
RECURSIVE NameRun(_)
NameRun(s) == IF s # <<>> /\ NameChar(Head(s)) THEN 1 + NameRun(Tail(s)) ELSE 0

\* xpath_tokenizer_re.findall: a quoted string, a symbol or a name at a time
RECURSIVE xpath_tokenizer(_)
xpath_tokenizer(s) ==
    IF s = <<>> THEN <<>>
    ELSE IF Head(s) = "'" /\ \E j \in 2..Len(s) : s[j] = "'"
      THEN LET j == CHOOSE j \in 2..Len(s) :
                      s[j] = "'" /\ \A i \in 2..(j - 1) : s[i] # "'"
           IN  <<[t |-> "'", v |-> SubSeq(s, 2, j - 1)]>>
                 \o xpath_tokenizer(SubSeq(s, j + 1, Len(s)))
    ELSE IF Head(s) \in Symbols
      THEN <<[t |-> Head(s), v |-> <<>>]>> \o xpath_tokenizer(Tail(s))
    ELSE IF NameChar(Head(s))
      THEN LET n == NameRun(s)
           IN  <<[t |-> "", v |-> SubSeq(s, 1, n)]>>
                 \o xpath_tokenizer(SubSeq(s, n + 1, Len(s)))
    ELSE xpath_tokenizer(Tail(s))

RECURSIVE Signature(_)
Signature(tokens) ==
    IF tokens = <<>> THEN <<>>
    ELSE <<IF Head(tokens).t = "" THEN "-" ELSE Head(tokens).t>> \o Signature(Tail(tokens))

Invalid == [op |-> "error"]

\* prepare_predicate: the selector of the tokens between "[" and "]"
prepare_predicate(tokens) ==
    LET signature == Signature(tokens)
    IN  IF signature = <<"@", "-">>
          THEN [op |-> "has_attr", key |-> tokens[2].v]
        ELSE IF signature = <<"@", "-", "=", "'">>
          THEN [op |-> "attr_eq", key |-> tokens[2].v, value |-> tokens[4].v]
        ELSE IF signature = <<"-">>
          THEN [op |-> "has_child", tag |-> tokens[1].v]
        ELSE IF signature = <<"-", "=", "'">>
          THEN [op |-> "text_eq", tag |-> tokens[1].v, value |-> tokens[3].v]
        ELSE Invalid

\* iterfind, the compilation of a path: its selectors; a path that raises
\* (SyntaxError, KeyError, or a predicate without "]") has an Invalid selector
RECURSIVE selectors(_)
selectors(tokens) ==
    LET token == Head(tokens)
        close == CHOOSE j \in 2..Len(tokens) :
                    tokens[j].t = "]" /\ \A i \in 2..(j - 1) : tokens[i].t # "]"
        step ==
            IF token.t = "" THEN [sel |-> [op |-> "child", tag |-> token.v], next |-> 2]
            ELSE IF token.t = "." THEN [sel |-> [op |-> "self"], next |-> 2]
            ELSE IF token.t = "[" /\ \E j \in 2..Len(tokens) : tokens[j].t = "]"
              THEN [sel |-> prepare_predicate(SubSeq(tokens, 2, close - 1)),
                    next |-> close + 1]
            ELSE [sel |-> Invalid, next |-> Len(tokens) + 1]
        after == SubSeq(tokens, step.next, Len(tokens))
        rest == IF after # <<>> /\ Head(after).t = "/" THEN Tail(after) ELSE after
    IN  <<step.sel>> \o (IF rest = <<>> THEN <<>> ELSE selectors(rest))

\* elem.get(key): None or the value, as Tag(value)
get(elem, key) ==
    IF NameOf(key) \in DOMAIN elem.attrib THEN Tag(elem.attrib[NameOf(key)]) ELSE None

RECURSIVE Concat(_)
Concat(seqs) == IF seqs = <<>> THEN <<>> ELSE Head(seqs) \o Concat(Tail(seqs))

HasTag(elem, tag) == elem.tag = NameOf(tag)

\* "".join(elem.itertext()) of an element whose children carry the text
itertext(elem) == elem.text \o Concat([i \in 1..Len(elem.children) |-> elem.children[i].text])

\* one selector applied to the elements selected so far
select(sel, result) ==
    IF sel.op = "self" THEN result
    ELSE IF sel.op = "child"
      THEN Concat([i \in 1..Len(result) |->
                     SelectSeq(result[i].children, LAMBDA e : HasTag(e, sel.tag))])
    ELSE IF sel.op = "has_attr"
      THEN SelectSeq(result, LAMBDA e : get(e, sel.key) # None)
    ELSE IF sel.op = "attr_eq"
      THEN SelectSeq(result, LAMBDA e : get(e, sel.key) = Tag(sel.value))
    ELSE IF sel.op = "has_child"
      THEN SelectSeq(result, LAMBDA e :
             \E i \in 1..Len(e.children) : HasTag(e.children[i], sel.tag))
    ELSE SelectSeq(result, LAMBDA e :
             \E i \in 1..Len(e.children) :
                HasTag(e.children[i], sel.tag) /\ itertext(e.children[i]) = sel.value)

RECURSIVE execute(_, _)
execute(sels, result) ==
    IF sels = <<>> THEN result ELSE execute(Tail(sels), select(Head(sels), result))

\* f"./channel[@id='{channel_id}']"
channel_path(channel_id) ==
    <<".", "/", "c", "h", "a", "n", "n", "e", "l", "[", "@", "i", "d", "=", "'">>
      \o channel_id \o <<"'", "]">>

\* tv.find(path): [raised |-> TRUE] when the path is rejected, else the elements found
find(elem, path) ==
    LET sels == selectors(xpath_tokenizer(path))
    IN  IF \E i \in 1..Len(sels) : sels[i].op = "error"
        THEN [raised |-> TRUE, found |-> <<>>]
        ELSE [raised |-> FALSE, found |-> execute(sels, <<elem>>)]

(* ------------------------------- run_qc -------------------------------- *)
\* root.findall(tag)
findall(root, tag) == SelectSeq(root.children, LAMBDA e : e.tag = tag)

\* lines 226-232: the programmes of one channel, in document order
prog_map(root, ch) ==
    LET prs == SelectSeq(findall(root, "programme"), LAMBDA pr : pr.attrib.channel = ch)
    IN  [i \in 1..Len(prs) |->
            [start |-> _parse_ts(prs[i].attrib.start),
             stop |-> _parse_ts(prs[i].attrib.stop),
             title |-> prs[i].children[1].text]]

\* plist.sort(key=lambda x: x["start"])
SortPlist(plist) ==
    LET sorted == SortPairs([i \in 1..Len(plist) |-> <<plist[i].start, plist[i]>>])
    IN  [i \in 1..Len(sorted) |-> sorted[i][2]]

\* lines 238-240: the counters and the continuity of a channel before its walk
QCStart == [overlaps |-> 0, gaps |-> 0, invalid |-> 0, last_stop |-> None, last_day |-> None]

\* Continuity, were it kept over a change of day
NoReset(w, day) == w.last_stop

\* lines 248-249: the continuity is reset when the day changes
Continuity(w, day) ==
    IF w.last_day # None /\ Tag(day) # w.last_day THEN None ELSE w.last_stop

\* lines 241-258: one iteration of the walk, for the entry p
QCStep(w, p) ==
    LET day == date(p.start)
        cont == Continuity(w, day)
    IN  [overlaps |-> w.overlaps + (IF cont # None /\ p.start < cont[1] THEN 1 ELSE 0),
         gaps |-> w.gaps + (IF cont # None /\ ~(p.start < cont[1]) /\ p.start > cont[1]
                            THEN 1 ELSE 0),
         invalid |-> w.invalid + (IF p.stop < p.start THEN 1 ELSE 0),
         last_stop |-> Tag(p.stop),
         last_day |-> Tag(day)]

RECURSIVE QCWalk(_, _)
QCWalk(w, plist) == IF plist = <<>> THEN w ELSE QCWalk(QCStep(w, Head(plist)), Tail(plist))

\* lines 236-262 for one channel
QCChannel(root, ch) == QCWalk(QCStart, SortPlist(prog_map(root, ch)))

\* the keys of prog_map, in the order the dict gets them
RECURSIVE Keys(_, _)
Keys(prs, seen) ==
    IF prs = <<>> THEN <<>>
    ELSE LET ch == Head(prs).attrib.channel
         IN  IF ch \in seen THEN Keys(Tail(prs), seen)
             ELSE <<ch>> \o Keys(Tail(prs), seen \cup {ch})

\* lines 235-262: the totals over the channels
RECURSIVE Totals(_, _)
Totals(root, chs) ==
    IF chs = <<>> THEN [overlaps |-> 0, gaps |-> 0, invalid |-> 0]
    ELSE LET w == QCChannel(root, Head(chs))
             t == Totals(root, Tail(chs))
         IN  [overlaps |-> t.overlaps + w.overlaps,
              gaps |-> t.gaps + w.gaps,
              invalid |-> t.invalid + w.invalid]

\* lines 214-271: the totals logged for a document
run_qc(root) == Totals(root, Keys(findall(root, "programme"), {}))

(* ------------------------------- inputs -------------------------------- *)
T_0900 == <<"9", ":", "0", "0">>
T_0900b == <<"0", "9", ":", "0", "0">>
T_1030 == <<"1", "0", ":", "3", "0">>
T_2400 == <<"2", "4", ":", "0", "0">>
T_1060 == <<"1", "0", ":", "6", "0">>
T_bad == <<"a", "b">>
News == <<"N", "e", "w", "s">>
Repeat == <<"R", "e", "p">>

Row(time, program) == [time |-> time, program |-> program]

\* the rows of the sections of the day loop
Rows == {Row(Tag(t), Tag(News)) : t \in {T_0900, T_1030, T_bad}}

\* the rows of the section taken alone
SecRows ==
    {Row(Tag(t), Tag(p)) : t \in {T_0900, T_0900b, T_1030}, p \in {News, Repeat, <<>>}}
      \cup {Row(Tag(t), Tag(News)) : t \in {T_2400, T_1060, T_bad, <<>>}}
      \cup {Row(None, Tag(News)), Row(Tag(T_0900), None), Row(Tag(<<>>), Tag(<<>>))}

Lists(S, n) == UNION {[1..k -> S] : k \in 0..n}

N_AB == <<"A", " ", "B">>
N_A_B == <<"A", " ", " ", "B">>
N_Ks == <<"K", "'", "s">>
N_inj == <<"A", "'", "]", "[", "@", "i", "d", "=", "'", "A">>
N_Channels == <<"C", "h", "a", "n", "n", "e", "l", "s">>

\* the h1 of a tv-header: None when the header or the h1 is missing
Headers == {None} \cup {Tag(n) : n \in {N_AB, N_A_B, N_Ks, N_inj, N_Channels}}

(* ------------------------------- state --------------------------------- *)
VARIABLES
    pc,          \* "fetch": main is about to fetch the page of day_offset;
                 \* "boxes": parse_day_program is in its loop over tv_boxes;
                 \* "done": main has returned; "raised": an exception ended main
    day_offset,  \* main's loop variable
    tv_boxes,    \* the number of sections of the page still to go through
    tv,          \* the root element of the document
    totals,      \* what run_qc has logged: None before
    skipped,     \* history: the day offsets whose fetch gave no page
    today,       \* history: the channel ids of the sections of the current page
    repeated,    \* history: some page had two sections of one channel id
    first_name,  \* history: channel id -> display name of its first section
    box,         \* a section taken alone: its day and its rows
    out,         \* what Section makes of box: None before
    plist,       \* run_qc: the sorted entries of the channel that is walked
    pos,         \* run_qc: the position of the walk in plist
    walk         \* run_qc: the counters and the continuity of the walk

pipeline == <<pc, day_offset, tv_boxes, tv, totals, skipped, today, repeated, first_name>>
section == <<box, out>>
qc == <<plist, pos, walk>>
vars == <<pc, day_offset, tv_boxes, tv, totals, skipped, today, repeated, first_name,
          box, out, plist, pos, walk>>

\* line 275-277: the local day of an offset
Day(offset) == DateTime(offset, 0, 0, 0)

\* lines 79-88
tv0 == Element("tv", [date |-> <<>>], <<>>, <<>>)

SubElement(parent, elem) == [parent EXCEPT !.children = Append(@, elem)]

RECURSIVE Extend(_, _)
Extend(parent, elems) ==
    IF elems = <<>> THEN parent ELSE Extend(SubElement(parent, Head(elems)), Tail(elems))

\* lines 129-130
channel_elem(channel_id, channel_name) ==
    Element("channel", [id |-> channel_id], <<>>,
            <<Element("display-name", [lang |-> mn], channel_name, <<>>)>>)

InitSection == box = [day_local |-> Day(0), li_items |-> <<>>] /\ out = None
InitQC == plist = <<>> /\ pos = 0 /\ walk = QCStart
InitPipeline ==
    /\ pc = "fetch"
    /\ day_offset = 0
    /\ tv_boxes = 0
    /\ tv = tv0
    /\ totals = None
    /\ skipped = {}
    /\ today = {}
    /\ repeated = FALSE
    /\ first_name = <<>>

Init == InitPipeline /\ InitSection /\ InitQC

(* ------------------------------ the day loop --------------------------- *)
\* FetchFail, were the document started again on a failure
FetchFailRollback ==
    /\ pc = "fetch" /\ day_offset < NumDays
    /\ day_offset' = day_offset + 1
    /\ skipped' = skipped \cup {day_offset}
    /\ tv' = tv0
    /\ UNCHANGED <<pc, tv_boxes, totals, today, repeated, first_name>>
    /\ UNCHANGED <<section, qc>>

\* lines 108-110: http_get gives no page
FetchFail ==
    /\ pc = "fetch" /\ day_offset < NumDays
    /\ day_offset' = day_offset + 1
    /\ skipped' = skipped \cup {day_offset}
    /\ UNCHANGED <<pc, tv_boxes, tv, totals, today, repeated, first_name>>
    /\ UNCHANGED <<section, qc>>

\* lines 108-117: a page with n sections
FetchOk(n) ==
    /\ pc = "fetch" /\ day_offset < NumDays
    /\ today' = {}
    /\ IF n = 0
       THEN day_offset' = day_offset + 1 /\ UNCHANGED <<pc, tv_boxes>>
       ELSE pc' = "boxes" /\ tv_boxes' = n /\ UNCHANGED day_offset
    /\ UNCHANGED <<tv, totals, skipped, repeated, first_name>>
    /\ UNCHANGED <<section, qc>>

\* the end of an iteration of the loop over tv_boxes
NextBox ==
    /\ tv_boxes' = tv_boxes - 1
    /\ IF tv_boxes = 1
       THEN pc' = "fetch" /\ day_offset' = day_offset + 1
       ELSE UNCHANGED <<pc, day_offset>>

\* lines 125-130: the channel of the section is looked up and, when the
\* lookup finds nothing, added
Register(root, r, channel_id, channel_name) ==
    IF r.found = <<>> THEN SubElement(root, channel_elem(channel_id, channel_name))
    ELSE root

\* lines 117-205: one section, with header h1 and rows li_items
Box(h1, li_items) ==
    /\ pc = "boxes" /\ tv_boxes > 0
    /\ \E channel_name \in {IF h1 = None THEN <<>> ELSE Strip(get_text(h1))} :
         IF channel_name = <<>> \/ channel_name \in NON_CHANNEL_DISPLAY_NAMES
         THEN NextBox /\ UNCHANGED <<tv, today, repeated, first_name>>
         ELSE \E channel_id \in {normalize_channel_id(channel_name)} :
              \E r \in {find(tv, channel_path(channel_id))} :
                IF r.raised
                THEN /\ pc' = "raised"
                     /\ UNCHANGED <<day_offset, tv_boxes, tv, today, repeated, first_name>>
                ELSE /\ NextBox
                     /\ tv' = IF li_items = <<>>
                              THEN Register(tv, r, channel_id, channel_name)
                              ELSE Extend(Register(tv, r, channel_id, channel_name),
                                          Section(Day(day_offset), channel_id, li_items).emitted)
                     /\ today' = today \cup {channel_id}
                     /\ repeated' = (repeated \/ channel_id \in today)
                     /\ first_name' = IF channel_id \in DOMAIN first_name THEN first_name
                                      ELSE (channel_id :> channel_name) @@ first_name
    /\ UNCHANGED <<totals, skipped>>
    /\ UNCHANGED <<section, qc>>

\* lines 280-291: the loop is over; the document is written and run_qc reads it
Finish ==
    /\ pc = "fetch" /\ day_offset = NumDays
    /\ pc' = "done"
    /\ totals' = Tag(run_qc(tv))
    /\ UNCHANGED <<day_offset, tv_boxes, tv, skipped, today, repeated, first_name>>
    /\ UNCHANGED <<section, qc>>

Next ==
    \/ FetchFail
    \/ \E n \in 0..MaxSections : FetchOk(n)
    \/ \E h1 \in Headers, li_items \in Lists(Rows, MaxRows) : Box(h1, li_items)
    \/ Finish

Spec == Init /\ [][Next]_vars

(* --------------------------- one section alone ------------------------- *)
AB == <<"A", "_", "B">>

InitBox ==
    /\ InitPipeline /\ InitQC
    /\ box \in [day_local : {Day(d) : d \in 0..(NumDays - 1)},
                li_items : Lists(SecRows, MaxSecRows)]
    /\ out = None

\* lines 142-205 applied to the rows of box
ParseBox ==
    /\ out = None
    /\ out' = Tag(Section(box.day_local, AB, box.li_items))
    /\ UNCHANGED <<box, pipeline, qc>>

NextBoxAlone == ParseBox

SpecSection == InitBox /\ [][NextBoxAlone]_vars

(* ------------------------- the walk of one channel --------------------- *)
\* the start and stop attributes a document can hold
Stamps ==
    {fmt_xmltv_time(DateTime(0, 9, 0, 0)), fmt_xmltv_time(DateTime(0, 10, 30, 0)),
     fmt_xmltv_time(DateTime(0, 23, 59, 59)), fmt_xmltv_time(DateTime(1, 9, 0, 0))}

\* lines 229-232: the entry of a programme element
Entry(start, stop) == [start |-> _parse_ts(start), stop |-> _parse_ts(stop), title |-> <<>>]

InitWalk ==
    /\ InitPipeline /\ InitSection
    /\ plist \in Lists({Entry(a, b) : a \in Stamps, b \in Stamps}, MaxQC)
    /\ pos = 0
    /\ walk = QCStart

\* line 237
QCSort ==
    /\ pos = 0
    /\ plist' = SortPlist(plist)
    /\ pos' = 1
    /\ UNCHANGED <<walk, pipeline, section>>

\* lines 241-258: the walk takes the entry at pos
QCNext ==
    /\ pos >= 1 /\ pos <= Len(plist)
    /\ walk' = QCStep(walk, plist[pos])
    /\ pos' = pos + 1
    /\ UNCHANGED <<plist, pipeline, section>>

NextWalk == QCSort \/ QCNext

SpecQC == InitWalk /\ [][NextWalk]_vars

(* ------------------------------ properties ----------------------------- *)
Programmes == findall(tv, "programme")
Channels == findall(tv, "channel")
SameChannel(i, j) == Programmes[i].attrib.channel = Programmes[j].attrib.channel
\* the day a programme comes from: the date of its start
DayOf(pr) == date(_parse_ts(pr.attrib.start))
IsPrefix(a, b) == Len(a) <= Len(b) /\ SubSeq(b, 1, Len(a)) = a

\* C1: in the document, the programmes of one channel id have pairwise
\* distinct start values, whatever the pages held.
C1_StartsDistinct ==
    \A i, j \in 1..Len(Programmes) :
        i < j /\ SameChannel(i, j) => Programmes[i].attrib.start # Programmes[j].attrib.start

\* C2: in the document, the programmes of one channel id are non-decreasing
\* by start in document order, whatever the pages held.
C2_StartsOrdered ==
    \A i, j \in 1..Len(Programmes) :
        i < j /\ SameChannel(i, j)
            => to_int(Programmes[i].attrib.start) <= to_int(Programmes[j].attrib.start)

\* C3: two programmes that follow each other in document order among those of
\* one channel, and come from the same day, abut: the stop of the first is the
\* start of the second.
C3_StopIsNextStart ==
    \A i, j \in 1..Len(Programmes) :
        /\ i < j /\ SameChannel(i, j)
        /\ \A k \in (i + 1)..(j - 1) : ~SameChannel(i, k)
        /\ DayOf(Programmes[i]) = DayOf(Programmes[j])
        => Programmes[i].attrib.stop = Programmes[j].attrib.start

\* C4: the channel elements of the document have pairwise distinct ids, and
\* each holds the display name of the first section that had its id.
C4_ChannelsRegisteredOnce ==
    /\ \A i, j \in 1..Len(Channels) :
          i < j => Channels[i].attrib.id # Channels[j].attrib.id
    /\ \A i \in 1..Len(Channels) :
          /\ Channels[i].attrib.id \in DOMAIN first_name
          /\ Channels[i].children[1].text = first_name[Channels[i].attrib.id]

\* C5: a step in which the fetch of a day fails leaves the document as it is
\* and takes the loop to the next day; no step removes or changes an element
\* the document already has; and main ends only after the last day.
C5_FailedDaySkippedOnly ==
    [][/\ IsPrefix(tv.children, tv'.children)
       /\ skipped' # skipped =>
            /\ tv' = tv
            /\ pc' = "fetch"
            /\ day_offset' = day_offset + 1
            /\ skipped' = skipped \cup {day_offset}
       /\ pc' = "done" => day_offset' = NumDays /\ tv' = tv]_vars

\* a day with programmes, then a day whose fetch failed, and main has ended
C5_Witness ==
    /\ pc = "done"
    /\ skipped = {NumDays - 1}
    /\ \E i \in 1..Len(Programmes) : DayOf(Programmes[i]) = 0

\* C6: in the walk of a channel, an entry whose day differs from the day of
\* the entry before it adds nothing to the overlaps and the gaps, whatever
\* the stop before it; only an entry of the same day as the one before it
\* adds to them.
C6_DayBoundaryNotFlagged ==
    [][pos' = pos + 1 /\ pos >= 1 =>
         LET day == Tag(date(plist[pos].start))
         IN  /\ walk.last_day # None /\ day # walk.last_day
                  => walk'.overlaps = walk.overlaps /\ walk'.gaps = walk.gaps
             /\ walk'.overlaps + walk'.gaps > walk.overlaps + walk.gaps
                  => walk.last_day = day]_vars

\* the walk has passed from an entry of day 0 to an entry of day 1 that does
\* not start at the stop of the first
C6_Witness ==
    /\ pos = 3
    /\ date(plist[1].start) = 0
    /\ date(plist[2].start) = 1
    /\ plist[1].stop # plist[2].start

\* the rows of box that are parsed into programme_list, the section run
Parsed == out[1].programme_list
Emitted == out[1].emitted
FirstWith(start) == CHOOSE i \in 1..Len(Parsed) :
    Parsed[i].start = start /\ \A j \in 1..(i - 1) : Parsed[j].start # start

\* C7: of the valid rows of a section, every start time is emitted exactly
\* once, with the title of the first row in page order that has this start;
\* nothing else is emitted.
C7_DedupKeepsFirst ==
    out # None =>
        /\ \A i \in 1..Len(Parsed) :
              \E k \in 1..Len(Emitted) :
                 /\ Emitted[k].attrib.start = Parsed[i].start
                 /\ Emitted[k].children[1].text = Parsed[FirstWith(Parsed[i].start)].title
                 /\ \A l \in 1..Len(Emitted) :
                       Emitted[l].attrib.start = Parsed[i].start => l = k
        /\ \A k \in 1..Len(Emitted) :
              \E i \in 1..Len(Parsed) : Parsed[i].start = Emitted[k].attrib.start

\* two rows of one start with different titles, and a row of another start
C7_Witness ==
    /\ out # None
    /\ \E i, j, k \in 1..Len(Parsed) :
          /\ i < j
          /\ Parsed[i].start = Parsed[j].start
          /\ Parsed[i].title # Parsed[j].title
          /\ Parsed[k].start # Parsed[i].start
    /\ Len(Emitted) = 2

\* C8: the last programme a section emits (the one of the largest start)
\* stops at 23:59:59 of the day of its start, not on the next day and not
\* before its start.
C8_LastStopSameDay ==
    out # None /\ Emitted # <<>> =>
        LET last == Emitted[Len(Emitted)]
        IN  /\ \A k \in 1..Len(Emitted) :
                  to_int(Emitted[k].attrib.start) <= to_int(last.attrib.start)
            /\ last.attrib.stop
                  = Pad2(date(box.day_local)) \o <<"2", "3", "5", "9", "5", "9">>
            /\ date(_parse_ts(last.attrib.stop)) = date(_parse_ts(last.attrib.start))
            /\ _parse_ts(last.attrib.stop) >= _parse_ts(last.attrib.start)

\* a section of day 1 that emits two programmes
C8_Witness ==
    /\ out # None
    /\ Len(Emitted) = 2
    /\ date(box.day_local) = 1

HasBoth(li) == li.time # None /\ li.program # None
TimeOk(li) ==
    LET m == TIME_RE_match(get_text(li.time))
    IN  m # None /\ m[1] <= 23 /\ m[2] <= 59
CountRows(P(_)) == Cardinality({i \in 1..Len(box.li_items) : P(box.li_items[i])})

\* C9 as stated: a row with an empty title text or an empty time text gives
\* no programme and no invalid-time count; only a row with a time text that
\* is not empty and fails the pattern or the range is counted.
C9_EmptyTextSkipped ==
    out # None =>
        /\ out[1].invalid_times = CountRows(LAMBDA li :
              /\ HasBoth(li)
              /\ get_text(li.time) # <<>> /\ get_text(li.program) # <<>>
              /\ ~TimeOk(li))
        /\ Len(Parsed) = CountRows(LAMBDA li :
              /\ HasBoth(li)
              /\ get_text(li.time) # <<>> /\ get_text(li.program) # <<>>
              /\ TimeOk(li))

\* C9 amended: a row without the time element or without the title element
\* gives no programme and no invalid-time count; a row with both is counted
\* as invalid-time when its time text, empty or not, fails the pattern or
\* the range, and gives a programme otherwise, also with an empty title.
C9_MissingElementSkipped ==
    out # None =>
        /\ out[1].invalid_times = CountRows(LAMBDA li : HasBoth(li) /\ ~TimeOk(li))
        /\ Len(Parsed) = CountRows(LAMBDA li : HasBoth(li) /\ TimeOk(li))
        /\ \A i \in 1..Len(box.li_items) :
              LET li == box.li_items[i]
              IN  HasBoth(li) /\ TimeOk(li) /\ get_text(li.program) = <<>>
                    => \E k \in 1..Len(Parsed) : Parsed[k].title = <<>>

\* a row with an empty time text, a row with an empty title, a row without
\* the time element
C9_Witness ==
    /\ out # None
    /\ \E i, j, k \in 1..Len(box.li_items) :
          /\ box.li_items[i] = Row(Tag(<<>>), Tag(News))
          /\ box.li_items[j] = Row(Tag(T_0900), Tag(<<>>))
          /\ box.li_items[k] = Row(None, Tag(News))
    /\ out[1].invalid_times = 1
    /\ Len(Parsed) = 1

\* C10: when no page had two sections of one channel id, run_qc finds no
\* overlap, no gap and no invalid interval in the document.
C10_QCClean ==
    pc = "done" /\ ~repeated =>
        totals = Tag([overlaps |-> 0, gaps |-> 0, invalid |-> 0])

\* main has ended, no page repeated a channel, and one channel has two
\* programmes of day 0 and a programme of day 1
C10_Witness ==
    /\ pc = "done" /\ ~repeated
    /\ \E i, j, k \in 1..Len(Programmes) :
          /\ i < j /\ j < k
          /\ SameChannel(i, j) /\ SameChannel(j, k)
          /\ DayOf(Programmes[i]) = 0 /\ DayOf(Programmes[j]) = 0
          /\ DayOf(Programmes[k]) = 1

====
